---- MODULE Spec2Model ----
(***************************************************************************)
(* Alerta Boreal (src/app.py): the data load with its fallback series, the *)
(* least-squares trend, hielo_para_anio, and the two tabs that derive      *)
(* population loss, risk tier and ecosystem state from a selected year.    *)
(*                                                                         *)
(* Numbers.  Ice extents are kept in thousandths of a million km2 (7.5 is  *)
(* 7500).  Every real of the script is an exact rational <<num, den>> with *)
(* den > 0 in lowest terms; the script's float64 values are these          *)
(* rationals up to binary rounding, which the model does not reproduce.    *)
(*                                                                         *)
(* Reruns.  Streamlit re-executes the script on every widget change; lines *)
(* 30-56 recompute the same datos, modelo and baseline_hielo from the same *)
(* file, so the model executes them once and each widget action re-renders *)
(* both tabs (lines 135-221) from the current widget values.               *)
(***************************************************************************)
EXTENDS Integers, Sequences, FiniteSets, TLC

VARIABLES archivo, pc, error, warning, datos, modelo, baseline_hielo, especies,
          especie_sel, anio_para_eval, anio_sel, tab_especies, tab_ecosistema

vars == <<archivo, pc, error, warning, datos, modelo, baseline_hielo, especies,
          especie_sel, anio_para_eval, anio_sel, tab_especies, tab_ecosistema>>

(* ------------------------------ bounds -------------------------------- *)
\* how many distinct years (the last ones before the slider maximum) a CSV draws from
NumCsvYears == 3

(* ------------------------- program constants -------------------------- *)
\* upper end of both year sliders
SliderMax == 2050

\* the module-level species table (pop_actual, vulnerabilidad as a rational)
EspeciesTabla ==
    [e \in {"Oso polar", "Foca anillada", "Morsa", "Narval"} |->
        CASE e = "Oso polar"     -> [pop_actual |-> 26000,   vulnerabilidad |-> <<4, 5>>]
          [] e = "Foca anillada" -> [pop_actual |-> 5000000, vulnerabilidad |-> <<3, 5>>]
          [] e = "Morsa"         -> [pop_actual |-> 300000,  vulnerabilidad |-> <<1, 2>>]
          [] e = "Narval"        -> [pop_actual |-> 80000,   vulnerabilidad |-> <<2, 5>>]]

\* list(especies.keys())[0], the selectbox default
EspecieInicial == "Oso polar"

\* the built-in series of the except branch
DatosEjemplo ==
    << [anio |-> 1980, hielo |-> 7500], [anio |-> 1990, hielo |-> 6800],
       [anio |-> 2000, hielo |-> 5500], [anio |-> 2010, hielo |-> 4200],
       [anio |-> 2020, hielo |-> 3500] >>

(* ----------------------------- rationals ------------------------------ *)
Abs(n) == IF n < 0 THEN -n ELSE n

RECURSIVE Gcd(_, _)
Gcd(a, b) == IF b = 0 THEN a ELSE Gcd(b, a % b)

\* the rational n/d (d # 0) in lowest terms with a positive denominator
Rat(n, d) ==
    LET g == Gcd(Abs(n), Abs(d))
        s == IF d < 0 THEN -1 ELSE 1
    IN  <<(s * n) \div g, Abs(d) \div g>>

RInt(n)    == <<n, 1>>
RAdd(p, q) == Rat(p[1] * q[2] + q[1] * p[2], p[2] * q[2])
RSub(p, q) == Rat(p[1] * q[2] - q[1] * p[2], p[2] * q[2])
RMul(p, q) ==
    LET g1 == Gcd(Abs(p[1]), q[2])
        g2 == Gcd(Abs(q[1]), p[2])
    IN  Rat((p[1] \div g1) * (q[1] \div g2), (p[2] \div g2) * (q[2] \div g1))
RDiv(p, q) == RMul(p, IF q[1] < 0 THEN <<-q[2], -q[1]>> ELSE <<q[2], q[1]>>)
RLt(p, q)  == p[1] * q[2] < q[1] * p[2]
RLe(p, q)  == p[1] * q[2] <= q[1] * p[2]
RMax(p, q) == IF RLt(p, q) THEN q ELSE p

\* <<q, r>> with k * n = q * d + r and 0 <= r < d, for k, n >= 0 and d > 0,
\* by doubling so that no intermediate value exceeds 3 * d or the quotient
RECURSIVE MulDiv(_, _, _)
MulDiv(k, n, d) ==
    IF k = 0 THEN <<0, 0>>
    ELSE LET h  == MulDiv(k \div 2, n, d)
             q2 == 2 * h[1] + (IF k % 2 = 1 THEN n \div d ELSE 0)
             r2 == 2 * h[2] + (IF k % 2 = 1 THEN n % d ELSE 0)
         IN  <<q2 + (r2 \div d), r2 % d>>

\* Python round(k * x) for an integer k >= 0 and a rational x: nearest integer,
\* a tie going to the even neighbour
RoundProd(k, x) ==
    LET m  == MulDiv(k, Abs(x[1]), x[2])
        up == \/ 2 * m[2] > x[2]
              \/ 2 * m[2] = x[2] /\ m[1] % 2 = 1
        a  == IF up THEN m[1] + 1 ELSE m[1]
    IN  IF x[1] < 0 THEN -a ELSE a

(* --------------------------- 2) data load ----------------------------- *)
\* the years a modelled CSV draws from: the last ones before the slider maximum
CsvYears   == {SliderMax - k : k \in 1..NumCsvYears}
\* extents of a modelled CSV row: with 8000 as the maximum, 6000, 4000 and 1000
\* put the polar bear's riesgo_dinamico exactly on 0.2, 0.4 and 0.7
CsvExtents == {1000, 4000, 6000, 8000}
\* extents next to the ecosystem thresholds, for CSVs over the last two years
UmbralYears   == {SliderMax - 1, SliderMax - 2}
UmbralExtents == {3999, 4000, 5999, 6000, 6001}

\* row sequences over the given years, at most one row a year, in any file order
FilasDe(years, extents) ==
    UNION {{f \in [1..n -> [anio : years, hielo : extents]] :
               \A i, j \in 1..n : i # j => f[i].anio # f[j].anio} :
           n \in 0..Cardinality(years)}

\* data/hielo_artico_real.csv as the pending read_csv finds it: absent or
\* unreadable, readable without both of the columns, or readable with both
Archivos ==
    {[estado |-> "ausente", filas |-> <<>>], [estado |-> "sin_columnas", filas |-> <<>>]}
    \cup {[estado |-> "ok", filas |-> f] :
             f \in FilasDe(CsvYears, CsvExtents) \cup FilasDe(UmbralYears, UmbralExtents)}

\* the file once read: the script keeps the frame, not the file
ArchivoLeido == [estado |-> "leido", filas |-> <<>>]

\* one row put into a sequence sorted ascending by anio
RECURSIVE Insertar(_, _)
Insertar(s, r) ==
    IF s = <<>> THEN <<r>>
    ELSE IF r.anio < s[1].anio THEN <<r>> \o s
    ELSE <<s[1]>> \o Insertar(Tail(s), r)

\* datos.sort_values("Año").reset_index(drop=True)
RECURSIVE sort_values(_)
sort_values(s) ==
    IF s = <<>> THEN <<>>
    ELSE Insertar(sort_values(SubSeq(s, 1, Len(s) - 1)), s[Len(s)])

\* CargarDatos that falls back only when the file is absent and takes a frame
\* without the two columns as it comes
CargarDatosSoloAusente(a) ==
    IF a.estado = "ausente" THEN <<DatosEjemplo, TRUE>>
    ELSE <<sort_values(a.filas), FALSE>>

\* the try/except of lines 30-40: <<datos, warning shown>>
CargarDatos(a) ==
    IF a.estado = "ok" THEN <<sort_values(a.filas), FALSE>>
    ELSE <<DatosEjemplo, TRUE>>

(* ------------------------ 3) regression model ------------------------- *)
RECURSIVE Suma(_, _, _)
\* the sum of term k over the rows of d: k selects anio, hielo, anio^2, anio*hielo
Suma(d, k, i) ==
    IF i > Len(d) THEN 0
    ELSE (CASE k = "x"  -> d[i].anio
            [] k = "y"  -> d[i].hielo
            [] k = "xx" -> d[i].anio * d[i].anio
            [] k = "xy" -> d[i].anio * d[i].hielo) + Suma(d, k, i + 1)

\* Pendiente with the two terms of the numerator exchanged
PendienteInvertida(d) ==
    LET n   == Len(d)
        num == Suma(d, "x", 1) * Suma(d, "y", 1) - n * Suma(d, "xy", 1)
        den == n * Suma(d, "xx", 1) - Suma(d, "x", 1) * Suma(d, "x", 1)
    IN  IF den = 0 THEN RInt(0) ELSE Rat(num, den)

\* slope of the least-squares line, 0 when every year is the same (one row)
Pendiente(d) ==
    LET n   == Len(d)
        num == n * Suma(d, "xy", 1) - Suma(d, "x", 1) * Suma(d, "y", 1)
        den == n * Suma(d, "xx", 1) - Suma(d, "x", 1) * Suma(d, "x", 1)
    IN  IF den = 0 THEN RInt(0) ELSE Rat(num, den)

\* LinearRegression().fit(X, y) for at least one row: coef_ and intercept_
LinearRegressionFit(d) ==
    LET n == Len(d)
        a == Pendiente(d)
    IN  [coef_      |-> a,
         intercept_ |-> RSub(Rat(Suma(d, "y", 1), n), RMul(a, Rat(Suma(d, "x", 1), n)))]

\* modelo.predict([[anio]])[0]
Predict(m, anio) == RAdd(RMul(m.coef_, RInt(anio)), m.intercept_)

\* does some row of d carry this year
EnDatos(d, anio) == \E i \in 1..Len(d) : d[i].anio = anio

\* hielo_para_anio without the exact-match branch
hielo_para_anio_tendencia(d, m, anio) == Predict(m, anio)

\* hielo_para_anio: the first row of that year if there is one, else the trend
hielo_para_anio(d, m, anio) ==
    IF EnDatos(d, anio)
    THEN RInt(d[CHOOSE i \in 1..Len(d) :
                  /\ d[i].anio = anio
                  /\ \A j \in 1..(i - 1) : d[j].anio # anio].hielo)
    ELSE Predict(m, anio)

\* float(datos["Millones_km2"].max())
MaxHielo(d) == CHOOSE v \in {d[i].hielo : i \in 1..Len(d)} :
                   \A i \in 1..Len(d) : d[i].hielo <= v

MinAnio(d) == CHOOSE v \in {d[i].anio : i \in 1..Len(d)} :
                  \A i \in 1..Len(d) : v <= d[i].anio
MaxAnio(d) == CHOOSE v \in {d[i].anio : i \in 1..Len(d)} :
                  \A i \in 1..Len(d) : d[i].anio <= v

\* the years either slider offers (none before there are rows)
AniosSlider(d) == IF d = <<>> THEN {} ELSE MinAnio(d)..SliderMax

(* ------------------------------ tabs ---------------------------------- *)
\* frac without the max(0.0, ...)
FracSinTope(h, b) == RDiv(h, RInt(b))

\* frac = max(0.0, hielo / baseline_hielo)
Frac(h, b) == RMax(RInt(0), RDiv(h, RInt(b)))

\* riesgo_dinamico = vulnerabilidad * (1 - frac)
RiesgoDinamico(info, f) == RMul(info.vulnerabilidad, RSub(RInt(1), f))

\* perdidos by int() truncation instead of round()
PerdidosTruncados(info, r) ==
    LET m == MulDiv(info.pop_actual, Abs(r[1]), r[2])
    IN  IF r[1] < 0 THEN -m[1] ELSE m[1]

\* perdidos = round(pop_actual * riesgo_dinamico)
Perdidos(info, r) == RoundProd(info.pop_actual, r)

\* the species tab's chain with its first comparison made inclusive
ClasificarRiesgoInclusivo(r) ==
    IF RLe(r, <<2, 10>>) THEN "Bajo"
    ELSE IF RLt(r, <<4, 10>>) THEN "Moderado"
    ELSE IF RLt(r, <<7, 10>>) THEN "Alto"
    ELSE "Critico"

\* the if/elif chain of the species tab
ClasificarRiesgo(r) ==
    IF RLt(r, <<2, 10>>) THEN "Bajo"
    ELSE IF RLt(r, <<4, 10>>) THEN "Moderado"
    ELSE IF RLt(r, <<7, 10>>) THEN "Alto"
    ELSE "Critico"

\* the if/elif chain that colours the map markers
ColorRiesgo(r) ==
    IF RLt(r, <<2, 10>>) THEN <<0, 200, 0>>
    ELSE IF RLt(r, <<4, 10>>) THEN <<255, 255, 0>>
    ELSE IF RLt(r, <<7, 10>>) THEN <<255, 165, 0>>
    ELSE <<255, 0, 0>>

\* the chain on hielo_sel with 6 counted as stable
EstadoEcosistemaDesde6(h) ==
    IF RLe(RInt(6000), h) THEN "estable"
    ELSE IF RLe(RInt(4000), h) /\ RLe(h, RInt(6000)) THEN "riesgo"
    ELSE "critico"

\* the if/elif chain on hielo_sel
EstadoEcosistema(h) ==
    IF RLt(RInt(6000), h) THEN "estable"
    ELSE IF RLe(RInt(4000), h) /\ RLe(h, RInt(6000)) THEN "riesgo"
    ELSE "critico"

\* what the species tab computes and writes for one selection
RenderEspecies(d, m, b, esp, e, anio) ==
    LET info == esp[e]
        h    == hielo_para_anio(d, m, anio)
        f    == Frac(h, b)
        r    == RiesgoDinamico(info, f)
        p    == Perdidos(info, r)
    IN  [hielo_anio |-> h, frac |-> f, riesgo_dinamico |-> r, perdidos |-> p,
         restantes |-> info.pop_actual - p, riesgo_texto |-> ClasificarRiesgo(r)]

\* one map_data entry (perdidos is the loop's local, kept to be observable)
MapEntry(info, f) ==
    LET r == RiesgoDinamico(info, f)
        p == Perdidos(info, r)
        q == info.pop_actual - p
    IN  [perdidos |-> p, restantes |-> IF q < 0 THEN 0 ELSE q,
         riesgo |-> r, color |-> ColorRiesgo(r)]

\* what the ecosystem tab computes for one selected year
RenderEcosistema(d, m, b, esp, anio) ==
    LET h == hielo_para_anio(d, m, anio)
        f == Frac(h, b)
    IN  [hielo_sel |-> h, frac |-> f, estado |-> EstadoEcosistema(h),
         map_data |-> [e \in DOMAIN esp |-> MapEntry(esp[e], f)]]

\* values of the tab variables before the first render
SinEspecies ==
    [hielo_anio |-> RInt(0), frac |-> RInt(0), riesgo_dinamico |-> RInt(0),
     perdidos |-> 0, restantes |-> 0, riesgo_texto |-> "nada"]
SinEcosistema ==
    [hielo_sel |-> RInt(0), frac |-> RInt(0), estado |-> "nada",
     map_data |-> [e \in DOMAIN EspeciesTabla |->
                      [perdidos |-> 0, restantes |-> 0, riesgo |-> RInt(0),
                       color |-> <<0, 0, 0>>]]]
SinModelo == [coef_ |-> RInt(0), intercept_ |-> RInt(0)]

(* ----------------------------- actions -------------------------------- *)
Init ==
    /\ archivo \in Archivos
    /\ pc = "inicio"
    /\ error = "ninguno"
    /\ warning = FALSE
    /\ datos = <<>>
    /\ modelo = SinModelo
    /\ baseline_hielo = 0
    /\ especies = EspeciesTabla
    /\ especie_sel = EspecieInicial
    /\ anio_para_eval = 0
    /\ anio_sel = 0
    /\ tab_especies = SinEspecies
    /\ tab_ecosistema = SinEcosistema

\* lines 30-40: read the CSV, or fall back to the example series with a warning
Cargar ==
    /\ pc = "inicio"
    /\ datos' = CargarDatos(archivo)[1]
    /\ warning' = CargarDatos(archivo)[2]
    /\ archivo' = ArchivoLeido
    /\ pc' = "cargado"
    /\ UNCHANGED <<error, modelo, baseline_hielo, especies, especie_sel,
                   anio_para_eval, anio_sel, tab_especies, tab_ecosistema>>

\* lines 45-56 on at least one row: fit the trend and take the baseline
Ajustar ==
    /\ pc = "cargado"
    /\ Len(datos) >= 1
    /\ modelo' = LinearRegressionFit(datos)
    /\ baseline_hielo' = MaxHielo(datos)
    /\ pc' = "ajustado"
    /\ UNCHANGED <<archivo, error, warning, datos, especies, especie_sel,
                   anio_para_eval, anio_sel, tab_especies, tab_ecosistema>>

\* line 48 on an empty frame: fit raises ValueError and the script stops
AjustarFalla ==
    /\ pc = "cargado"
    /\ Len(datos) = 0
    /\ error' = "ValueError"
    /\ pc' = "error"
    /\ UNCHANGED <<archivo, warning, datos, modelo, baseline_hielo, especies,
                   especie_sel, anio_para_eval, anio_sel, tab_especies, tab_ecosistema>>

\* Render that writes the species tab's restantes back into the species table
RenderQueEscribe(e, a1, a2) ==
    /\ especie_sel' = e
    /\ anio_para_eval' = a1
    /\ anio_sel' = a2
    /\ tab_especies' = RenderEspecies(datos, modelo, baseline_hielo, especies, e, a1)
    /\ tab_ecosistema' = RenderEcosistema(datos, modelo, baseline_hielo, especies, a2)
    /\ especies' = [especies EXCEPT ![e].pop_actual =
                        RenderEspecies(datos, modelo, baseline_hielo, especies, e, a1).restantes]
    /\ UNCHANGED <<archivo, error, warning, datos, modelo, baseline_hielo>>

\* lines 135-221 with e, a1, a2 the values of the three widgets
Render(e, a1, a2) ==
    /\ especie_sel' = e
    /\ anio_para_eval' = a1
    /\ anio_sel' = a2
    /\ tab_especies' = RenderEspecies(datos, modelo, baseline_hielo, especies, e, a1)
    /\ tab_ecosistema' = RenderEcosistema(datos, modelo, baseline_hielo, especies, a2)
    /\ UNCHANGED <<archivo, error, warning, datos, modelo, baseline_hielo, especies>>

\* the first run's render: the selectbox on its first key, both sliders on the
\* last historical year
Mostrar ==
    /\ pc = "ajustado"
    /\ pc' = "listo"
    /\ Render(EspecieInicial, MaxAnio(datos), MaxAnio(datos))

\* the user picks a species in the selectbox
SeleccionarEspecie(e) ==
    /\ pc = "listo"
    /\ e # especie_sel
    /\ pc' = pc
    /\ Render(e, anio_para_eval, anio_sel)

\* the user moves the species tab's slider, one step of 1 at a time (every year
\* of the range is reached by steps, so the reachable states are those of
\* arbitrary jumps)
MoverAnioEspecies(a) ==
    /\ pc = "listo"
    /\ a \in {anio_para_eval - 1, anio_para_eval + 1}
    /\ pc' = pc
    /\ Render(especie_sel, a, anio_sel)

\* the user moves the ecosystem tab's slider, likewise by steps of 1
MoverAnioEcosistema(a) ==
    /\ pc = "listo"
    /\ a \in {anio_sel - 1, anio_sel + 1}
    /\ pc' = pc
    /\ Render(especie_sel, anio_para_eval, a)

Next ==
    \/ Cargar
    \/ Ajustar
    \/ AjustarFalla
    \/ Mostrar
    \/ \E e \in DOMAIN especies : SeleccionarEspecie(e)
    \/ \E a \in AniosSlider(datos) : MoverAnioEspecies(a)
    \/ \E a \in AniosSlider(datos) : MoverAnioEcosistema(a)

Spec == Init /\ [][Next]_vars

(* ------------------------------ claims -------------------------------- *)
\* the rows of the table the loss figures are computed from
PopDe(e) == EspeciesTabla[e].pop_actual
VulDe(e) == EspeciesTabla[e].vulnerabilidad

\* C1: for every species and every slider year, perdidos lies in
\* [0, pop_actual] and restantes = pop_actual - perdidos, in the species tab
\* and in every map entry; in particular for years absent from datos whose
\* trend value exceeds baseline_hielo.
C1_LossClamp ==
    pc = "listo" =>
        /\ tab_especies.perdidos \in 0..PopDe(especie_sel)
        /\ tab_especies.restantes = PopDe(especie_sel) - tab_especies.perdidos
        /\ \A e \in DOMAIN EspeciesTabla :
              /\ tab_ecosistema.map_data[e].perdidos \in 0..PopDe(e)
              /\ tab_ecosistema.map_data[e].restantes
                     = PopDe(e) - tab_ecosistema.map_data[e].perdidos

\* the extent recorded for a year that datos holds
Registrado(d, anio) == (CHOOSE i \in 1..Len(d) : d[i].anio = anio)

\* C2: for a year present in datos both tabs show exactly the recorded extent,
\* whatever the trend predicts there; the trend value is shown only for a year
\* absent from datos.
C2_ExactMatch ==
    /\ pc = "listo" =>
          /\ tab_especies.hielo_anio =
                 IF EnDatos(datos, anio_para_eval)
                 THEN <<datos[Registrado(datos, anio_para_eval)].hielo, 1>>
                 ELSE Predict(modelo, anio_para_eval)
          /\ tab_ecosistema.hielo_sel =
                 IF EnDatos(datos, anio_sel)
                 THEN <<datos[Registrado(datos, anio_sel)].hielo, 1>>
                 ELSE Predict(modelo, anio_sel)
    /\ pc = "ajustado" =>
          \A i \in 1..Len(datos) :
              hielo_para_anio(datos, modelo, datos[i].anio) = <<datos[i].hielo, 1>>

\* a recorded year is selected in both tabs and the trend disagrees with the record
C2_Witness ==
    /\ pc = "listo"
    /\ EnDatos(datos, anio_para_eval)
    /\ EnDatos(datos, anio_sel)
    /\ Predict(modelo, anio_para_eval) # tab_especies.hielo_anio
    /\ Predict(modelo, anio_sel) # tab_ecosistema.hielo_sel

\* C3 as stated: extent exactly 6.0 gives Stable, 5.999 AtRisk, 4.0 AtRisk,
\* 3.999 Critical, and every extent gets one of the three states.
C3_Original ==
    pc = "listo" =>
        /\ tab_ecosistema.estado \in {"estable", "riesgo", "critico"}
        /\ tab_ecosistema.hielo_sel = <<6000, 1>> => tab_ecosistema.estado = "estable"
        /\ tab_ecosistema.hielo_sel = <<5999, 1>> => tab_ecosistema.estado = "riesgo"
        /\ tab_ecosistema.hielo_sel = <<4000, 1>> => tab_ecosistema.estado = "riesgo"
        /\ tab_ecosistema.hielo_sel = <<3999, 1>> => tab_ecosistema.estado = "critico"

\* C3 amended: an extent above 6.0 (6.001) gives Stable; from 4.0 to 6.0, both
\* ends included (6.0, 5.999, 4.0), AtRisk; below 4.0 (3.999) Critical; every
\* extent gets exactly one of the three states.
C3_Boundaries ==
    pc = "listo" =>
        LET h == tab_ecosistema.hielo_sel
            s == tab_ecosistema.estado
        IN  /\ s \in {"estable", "riesgo", "critico"}
            /\ (s = "estable") = (h[1] > 6000 * h[2])
            /\ (s = "riesgo")  = (h[1] >= 4000 * h[2] /\ h[1] <= 6000 * h[2])
            /\ (s = "critico") = (h[1] < 4000 * h[2])
            /\ h = <<6001, 1>> => s = "estable"
            /\ h = <<6000, 1>> => s = "riesgo"
            /\ h = <<5999, 1>> => s = "riesgo"
            /\ h = <<4000, 1>> => s = "riesgo"
            /\ h = <<3999, 1>> => s = "critico"

\* the selected year's extent is exactly 6.0 and the state shown is AtRisk
C3_Witness ==
    /\ pc = "listo"
    /\ tab_ecosistema.hielo_sel = <<6000, 1>>
    /\ tab_ecosistema.estado = "riesgo"

\* the tier and the marker colour of the claim's buckets for n/d
TierDe(r) ==
    IF 10 * r[1] < 2 * r[2] THEN <<"Bajo", <<0, 200, 0>> >>
    ELSE IF 10 * r[1] < 4 * r[2] THEN <<"Moderado", <<255, 255, 0>> >>
    ELSE IF 10 * r[1] < 7 * r[2] THEN <<"Alto", <<255, 165, 0>> >>
    ELSE <<"Critico", <<255, 0, 0>> >>

\* C4: the tier is Low below 0.2, Moderate on [0.2, 0.4), High on [0.4, 0.7),
\* Critical from 0.7 (so 0.2 is Moderate, 0.4 High, 0.7 Critical); the map
\* colours follow the same buckets; every riesgo_dinamico, a negative one
\* included, gets exactly one tier.
C4_Tiers ==
    pc = "listo" =>
        LET r == tab_especies.riesgo_dinamico
            t == tab_especies.riesgo_texto
        IN  /\ t = TierDe(r)[1]
            /\ r = <<1, 5>> => t = "Moderado"
            /\ r = <<2, 5>> => t = "Alto"
            /\ r = <<7, 10>> => t = "Critico"
            /\ r[1] < 0 => t = "Bajo"
            /\ \A e \in DOMAIN EspeciesTabla :
                  tab_ecosistema.map_data[e].color
                      = TierDe(tab_ecosistema.map_data[e].riesgo)[2]
            /\ anio_sel = anio_para_eval =>
                  tab_ecosistema.map_data[especie_sel].color = TierDe(r)[2]

\* riesgo_dinamico is exactly 0.2 and the tier shown is Moderate
C4_Witness ==
    /\ pc = "listo"
    /\ tab_especies.riesgo_dinamico = <<1, 5>>
    /\ tab_especies.riesgo_texto = "Moderado"
    /\ anio_sel = anio_para_eval

\* C5: from fewer than 2 records no trend is fitted and no query is answered:
\* the build fails with an error.
C5_InsufficientData ==
    (pc # "inicio" /\ Len(datos) < 2) =>
        /\ pc \in {"cargado", "error"}
        /\ pc = "error" => error # "ninguno"

\* rows ascending by year that are exactly the rows of the file
OrdenadoDe(d, filas) ==
    /\ Len(d) = Len(filas)
    /\ {d[i] : i \in 1..Len(d)} = {filas[i] : i \in 1..Len(filas)}
    /\ \A i, j \in 1..Len(d) : i < j => d[i].anio <= d[j].anio

\* C6: when the CSV is absent, unreadable or lacks a required column the
\* script goes on with exactly the 5-point example series and a warning, and
\* the trend and baseline come from that series; otherwise datos is the CSV's
\* rows sorted ascending by year.
C6_Fallback ==
    /\ [][pc = "inicio" =>
             /\ pc' = "cargado"
             /\ archivo.estado # "ok" =>
                    /\ warning'
                    /\ datos' = << [anio |-> 1980, hielo |-> 7500],
                                   [anio |-> 1990, hielo |-> 6800],
                                   [anio |-> 2000, hielo |-> 5500],
                                   [anio |-> 2010, hielo |-> 4200],
                                   [anio |-> 2020, hielo |-> 3500] >>
             /\ archivo.estado = "ok" =>
                    /\ ~warning'
                    /\ OrdenadoDe(datos', archivo.filas)]_vars
    /\ [](warning =>
             /\ pc # "error"
             /\ pc \in {"ajustado", "listo"} =>
                    /\ baseline_hielo = 7500
                    /\ modelo.coef_ = <<-106, 1>>
                    /\ modelo.intercept_ = <<217500, 1>>)

\* the example series is in use, with its warning, and the tabs are rendered
C6_Witness ==
    /\ pc = "listo"
    /\ warning
    /\ Len(datos) = 5
    /\ baseline_hielo = 7500

\* C7: frac = max(0, extent / baseline_hielo) is never negative, baseline_hielo
\* is the largest recorded extent, and where the extent is negative
\* riesgo_dinamico equals the species' vulnerabilidad.
C7_FracClamp ==
    pc = "listo" =>
        /\ \A i \in 1..Len(datos) : datos[i].hielo <= baseline_hielo
        /\ \E i \in 1..Len(datos) : datos[i].hielo = baseline_hielo
        /\ tab_especies.frac[1] >= 0
        /\ tab_ecosistema.frac[1] >= 0
        /\ tab_especies.frac[1] * tab_especies.hielo_anio[2] * baseline_hielo
               = (IF tab_especies.hielo_anio[1] < 0 THEN 0 ELSE tab_especies.hielo_anio[1])
                     * tab_especies.frac[2]
        /\ tab_ecosistema.frac[1] * tab_ecosistema.hielo_sel[2] * baseline_hielo
               = (IF tab_ecosistema.hielo_sel[1] < 0 THEN 0 ELSE tab_ecosistema.hielo_sel[1])
                     * tab_ecosistema.frac[2]
        /\ tab_especies.hielo_anio[1] < 0 =>
               tab_especies.riesgo_dinamico = VulDe(especie_sel)
        /\ tab_ecosistema.hielo_sel[1] < 0 =>
               \A e \in DOMAIN EspeciesTabla :
                   tab_ecosistema.map_data[e].riesgo = VulDe(e)

\* both tabs show a year whose extrapolated extent is negative
C7_Witness ==
    /\ pc = "listo"
    /\ tab_especies.hielo_anio[1] < 0
    /\ tab_ecosistema.hielo_sel[1] < 0
    /\ tab_especies.frac = <<0, 1>>
    /\ tab_especies.riesgo_dinamico = VulDe(especie_sel)

\* C8: with the example series, Oso polar at 2000 gives baseline 7.5, extent
\* 5.5, 5547 lost, 20453 remaining, tier Moderate; the ecosystem at 2000 is
\* AtRisk.
C8_Example ==
    (pc = "listo" /\ warning) =>
        /\ baseline_hielo = 7500
        /\ (especie_sel = "Oso polar" /\ anio_para_eval = 2000) =>
               /\ tab_especies.hielo_anio = <<5500, 1>>
               /\ tab_especies.perdidos = 5547
               /\ tab_especies.restantes = 20453
               /\ tab_especies.riesgo_texto = "Moderado"
        /\ anio_sel = 2000 => tab_ecosistema.estado = "riesgo"

\* the example series is loaded and both tabs are on Oso polar / 2000
C8_Witness ==
    /\ pc = "listo"
    /\ warning
    /\ especie_sel = "Oso polar"
    /\ anio_para_eval = 2000
    /\ anio_sel = 2000
    /\ tab_especies.perdidos = 5547

\* C9: once the tabs are up no widget action changes datos, especies, modelo
\* or baseline_hielo, and what the tabs show is the function of the loaded
\* rows and the current (species, year) selections alone.
C9_Frame ==
    /\ [][pc = "listo" =>
             /\ datos' = datos
             /\ especies' = especies
             /\ modelo' = modelo
             /\ baseline_hielo' = baseline_hielo]_vars
    /\ [](pc = "listo" =>
             /\ especies = EspeciesTabla
             /\ tab_especies =
                    RenderEspecies(datos, LinearRegressionFit(datos), MaxHielo(datos),
                                   EspeciesTabla, especie_sel, anio_para_eval)
             /\ tab_ecosistema =
                    RenderEcosistema(datos, LinearRegressionFit(datos), MaxHielo(datos),
                                     EspeciesTabla, anio_sel))

\* all three widgets have been moved off their defaults
C9_Witness ==
    /\ pc = "listo"
    /\ especie_sel # EspecieInicial
    /\ anio_para_eval # MaxAnio(datos)
    /\ anio_sel # MaxAnio(datos)
    /\ anio_sel # anio_para_eval

NoCreciente(d) == \A i \in 1..(Len(d) - 1) : d[i].hielo >= d[i + 1].hielo

\* C10: when datos holds at least 2 rows whose extents never increase with the
\* year, the fitted slope is negative or zero and the trend value never
\* increases from one absent year to a later one.
C10_Slope ==
    (pc = "ajustado" /\ Len(datos) >= 2 /\ NoCreciente(datos)) =>
        /\ modelo.coef_[1] <= 0
        /\ \A a1, a2 \in AniosSlider(datos) :
              (a1 < a2 /\ ~EnDatos(datos, a1) /\ ~EnDatos(datos, a2)) =>
                  RLe(hielo_para_anio(datos, modelo, a2), hielo_para_anio(datos, modelo, a1))

\* a fitted series of 3 or more rows that falls, with a strictly negative slope
C10_Witness ==
    /\ pc = "ajustado"
    /\ Len(datos) >= 3
    /\ NoCreciente(datos)
    /\ datos[1].hielo > datos[2].hielo
    /\ datos[2].hielo = datos[3].hielo
    /\ modelo.coef_[1] < 0

====
